---------------------------- MODULE Spec2Model ----------------------------
(* Model of src-tauri/src/main.rs: the Tauri command launch_agent_terminal.  *)
(* One build of the program has exactly one of the three cfg(target_os)      *)
(* blocks compiled in; `platform` records which.  The host may run several   *)
(* invocations of the command at once; every blocking Command::status()      *)
(* call is one step of the invocation that makes it, and its outcome is      *)
(* chosen by the operating system.                                           *)
EXTENDS Integers, Sequences, FiniteSets, TLC

(* Number of invocations the host may have in flight at the same time. *)
NumCalls == 2

Calls == 1..NumCalls

Platforms == {"macos", "windows", "linux"}

(* Command strings the host passes in (one plain, one that holds quotes). *)
Commands == {"echo hi", "say \"a b\""}

(* Textual description of the io::Error the spawn call can return *)
(* (e.to_string() of ErrorKind::NotFound: the binary is missing). *)
OsErrors == {"No such file or directory (os error 2)"}

(* The value of Command::status(): Err(e), or Ok(status) with status.success(). *)
SpawnErr(e) == [spawned |-> FALSE, success |-> FALSE, error |-> e]
Exited(s)   == [spawned |-> TRUE,  success |-> s,     error |-> ""]
Outcomes    == {SpawnErr(e) : e \in OsErrors} \cup {Exited(s) : s \in BOOLEAN}

(* Result<String, String> *)
Ok(m)    == [tag |-> "Ok",  msg |-> m]
Err(m)   == [tag |-> "Err", msg |-> m]
NoResult == [tag |-> "None", msg |-> ""]

VARIABLES platform, pc, command, command_with_delay, terminal, spawns, result

vars == <<platform, pc, command, command_with_delay, terminal, spawns, result>>

-----------------------------------------------------------------------------
(* Variant: the Linux string is built like the macOS one, without ";bash", *)
(* and the Windows one with the Unix delay instruction. *)
DelayedCommandSamePrefix(p, cmd) == "sleep 2 && " \o cmd

(* format!("sleep 2 && {}", command) and its two siblings. *)
DelayedCommand(p, cmd) ==
  CASE p = "macos"   -> "sleep 2 && " \o cmd
    [] p = "windows" -> "timeout /t 2 && " \o cmd
    [] p = "linux"   -> "sleep 2 && " \o cmd \o ";bash"

(* Command::new("osascript").args(...) *)
MacosSpawn(cwd) ==
  [program |-> "osascript",
   args    |-> <<"-e", "tell application \"Terminal\" to do script \"" \o cwd \o "\"">>]

(* Command::new("cmd").args(...) *)
WindowsSpawn(cwd) ==
  [program |-> "cmd", args |-> <<"/C", "start", "cmd", "/k", cwd>>]

(* Variant: the second and third candidates change places. *)
terminalsReordered(cwd) ==
  << [program |-> "gnome-terminal", args |-> <<"--", "bash", "-c", cwd>>],
     [program |-> "konsole",        args |-> <<"--noclose", "-e", cwd>>],
     [program |-> "xterm",          args |-> <<"-e", cwd>>] >>

(* Variant: xterm is handed the delayed command wrapped in quotes. *)
terminalsQuoted(cwd) ==
  << [program |-> "gnome-terminal", args |-> <<"--", "bash", "-c", cwd>>],
     [program |-> "xterm",          args |-> <<"-e", "\"" \o cwd \o "\"">>],
     [program |-> "konsole",        args |-> <<"--noclose", "-e", cwd>>] >>

(* let terminals = vec![...] *)
terminals(cwd) ==
  << [program |-> "gnome-terminal", args |-> <<"--", "bash", "-c", cwd>>],
     [program |-> "xterm",          args |-> <<"-e", cwd>>],
     [program |-> "konsole",        args |-> <<"--noclose", "-e", cwd>>] >>

(* Variant: a spawn error is reported with the fixed message. *)
MacosResultGeneric(o) ==
  IF o.spawned /\ o.success THEN Ok("Terminal launched successfully")
  ELSE Err("Failed to launch terminal")

(* Variant: the exit status is not looked at. *)
WindowsResultNoStatus(o) ==
  IF ~o.spawned THEN Err(o.error)
  ELSE Ok("Terminal launched successfully")

(* .status().map_err(|e| e.to_string())?  followed by  if status.success() *)
MacosResult(o) ==
  IF ~o.spawned THEN Err(o.error)
  ELSE IF o.success THEN Ok("Terminal launched successfully")
  ELSE Err("Failed to launch terminal")

WindowsResult(o) ==
  IF ~o.spawned THEN Err(o.error)
  ELSE IF o.success THEN Ok("Terminal launched successfully")
  ELSE Err("Failed to launch terminal")

(* Variant: the early return is missing, the loop always goes on. *)
LinuxLaunchedNever(o) == FALSE

(* if let Ok(status) = ... { if status.success() { return Ok(..) } } *)
LinuxLaunched(o) == o.spawned /\ o.success

(* The value the loop body returns early with. *)
LinuxOk == Ok("Terminal launched successfully")

(* The value after the loop. *)
LinuxErr == Err("Failed to launch terminal on Linux")

(* One entry of the log of spawn calls an invocation has made. *)
Attempt(s, o) == [program |-> s.program, args |-> s.args, outcome |-> o]

-----------------------------------------------------------------------------
Init ==
  /\ platform \in Platforms
  /\ pc = [i \in Calls |-> "idle"]
  /\ command = [i \in Calls |-> ""]
  /\ command_with_delay = [i \in Calls |-> ""]
  /\ terminal = [i \in Calls |-> 1]
  /\ spawns = [i \in Calls |-> <<>>]
  /\ result = [i \in Calls |-> NoResult]

(* Variant: the delayed command string is kept in one buffer that all *)
(* invocations write. *)
InvokeSharedBuffer(i) ==
  /\ pc[i] = "idle"
  /\ \E cmd \in Commands :
       /\ command' = [command EXCEPT ![i] = cmd]
       /\ command_with_delay' = [j \in Calls |-> DelayedCommand(platform, cmd)]
  /\ pc' = [pc EXCEPT ![i] = "spawning"]
  /\ terminal' = [terminal EXCEPT ![i] = 1]
  /\ spawns' = [spawns EXCEPT ![i] = <<>>]
  /\ result' = [result EXCEPT ![i] = NoResult]
  /\ UNCHANGED platform

(* The host invokes the command: the argument is bound and the delayed *)
(* command string is built. *)
Invoke(i) ==
  /\ pc[i] = "idle"
  /\ \E cmd \in Commands :
       /\ command' = [command EXCEPT ![i] = cmd]
       /\ command_with_delay' =
            [command_with_delay EXCEPT ![i] = DelayedCommand(platform, cmd)]
  /\ pc' = [pc EXCEPT ![i] = "spawning"]
  /\ terminal' = [terminal EXCEPT ![i] = 1]
  /\ spawns' = [spawns EXCEPT ![i] = <<>>]
  /\ result' = [result EXCEPT ![i] = NoResult]
  /\ UNCHANGED platform

(* Variant: the failure message quotes the command that was run. *)
SpawnMacosEcho(i) ==
  /\ platform = "macos"
  /\ pc[i] = "spawning"
  /\ \E o \in Outcomes :
       /\ spawns' = [spawns EXCEPT
                       ![i] = Append(@, Attempt(MacosSpawn(command_with_delay[i]), o))]
       /\ result' = [result EXCEPT
                       ![i] = IF o.spawned /\ ~o.success
                                THEN Err("Failed to launch terminal: " \o command[i])
                                ELSE MacosResult(o)]
  /\ pc' = [pc EXCEPT ![i] = "returned"]
  /\ UNCHANGED <<platform, command, command_with_delay, terminal>>

(* macOS block: one osascript spawn, then the function returns. *)
SpawnMacos(i) ==
  /\ platform = "macos"
  /\ pc[i] = "spawning"
  /\ \E o \in Outcomes :
       /\ spawns' = [spawns EXCEPT
                       ![i] = Append(@, Attempt(MacosSpawn(command_with_delay[i]), o))]
       /\ result' = [result EXCEPT ![i] = MacosResult(o)]
  /\ pc' = [pc EXCEPT ![i] = "returned"]
  /\ UNCHANGED <<platform, command, command_with_delay, terminal>>

(* Windows block: one cmd spawn, then the function returns. *)
SpawnWindows(i) ==
  /\ platform = "windows"
  /\ pc[i] = "spawning"
  /\ \E o \in Outcomes :
       /\ spawns' = [spawns EXCEPT
                       ![i] = Append(@, Attempt(WindowsSpawn(command_with_delay[i]), o))]
       /\ result' = [result EXCEPT ![i] = WindowsResult(o)]
  /\ pc' = [pc EXCEPT ![i] = "returned"]
  /\ UNCHANGED <<platform, command, command_with_delay, terminal>>

(* Variant: a spawn error leaves the function at once, as the `?` of the *)
(* other two blocks does. *)
SpawnLinuxPropagate(i) ==
  /\ platform = "linux"
  /\ pc[i] = "spawning"
  /\ LET ts == terminals(command_with_delay[i])
         k  == terminal[i]
     IN  \E o \in Outcomes :
           /\ spawns' = [spawns EXCEPT ![i] = Append(@, Attempt(ts[k], o))]
           /\ IF ~o.spawned
                THEN /\ result' = [result EXCEPT ![i] = Err(o.error)]
                     /\ pc' = [pc EXCEPT ![i] = "returned"]
                     /\ UNCHANGED terminal
                ELSE IF LinuxLaunched(o)
                  THEN /\ result' = [result EXCEPT ![i] = LinuxOk]
                       /\ pc' = [pc EXCEPT ![i] = "returned"]
                       /\ UNCHANGED terminal
                  ELSE IF k = Len(ts)
                    THEN /\ result' = [result EXCEPT ![i] = LinuxErr]
                         /\ pc' = [pc EXCEPT ![i] = "returned"]
                         /\ UNCHANGED terminal
                    ELSE /\ terminal' = [terminal EXCEPT ![i] = k + 1]
                         /\ UNCHANGED <<result, pc>>
  /\ UNCHANGED <<platform, command, command_with_delay>>

(* Variant: when the last candidate has failed the list is tried again *)
(* from its first entry. *)
SpawnLinuxRetry(i) ==
  /\ platform = "linux"
  /\ pc[i] = "spawning"
  /\ LET ts == terminals(command_with_delay[i])
         k  == terminal[i]
     IN  \E o \in Outcomes :
           /\ spawns' = [spawns EXCEPT ![i] = Append(@, Attempt(ts[k], o))]
           /\ IF LinuxLaunched(o)
                THEN /\ result' = [result EXCEPT ![i] = LinuxOk]
                     /\ pc' = [pc EXCEPT ![i] = "returned"]
                     /\ UNCHANGED terminal
                ELSE /\ terminal' = [terminal EXCEPT ![i] = (k % Len(ts)) + 1]
                     /\ UNCHANGED <<result, pc>>
  /\ UNCHANGED <<platform, command, command_with_delay>>

(* Linux block: one iteration of the loop over terminals; the last *)
(* iteration falls through to the Err after the loop. *)
SpawnLinux(i) ==
  /\ platform = "linux"
  /\ pc[i] = "spawning"
  /\ LET ts == terminals(command_with_delay[i])
         k  == terminal[i]
     IN  \E o \in Outcomes :
           /\ spawns' = [spawns EXCEPT ![i] = Append(@, Attempt(ts[k], o))]
           /\ IF LinuxLaunched(o)
                THEN /\ result' = [result EXCEPT ![i] = LinuxOk]
                     /\ pc' = [pc EXCEPT ![i] = "returned"]
                     /\ UNCHANGED terminal
                ELSE IF k = Len(ts)
                  THEN /\ result' = [result EXCEPT ![i] = LinuxErr]
                       /\ pc' = [pc EXCEPT ![i] = "returned"]
                       /\ UNCHANGED terminal
                  ELSE /\ terminal' = [terminal EXCEPT ![i] = k + 1]
                       /\ UNCHANGED <<result, pc>>
  /\ UNCHANGED <<platform, command, command_with_delay>>

(* The host takes the returned Result; the invocation's locals are gone. *)
Deliver(i) ==
  /\ pc[i] = "returned"
  /\ pc' = [pc EXCEPT ![i] = "idle"]
  /\ command' = [command EXCEPT ![i] = ""]
  /\ command_with_delay' = [command_with_delay EXCEPT ![i] = ""]
  /\ terminal' = [terminal EXCEPT ![i] = 1]
  /\ spawns' = [spawns EXCEPT ![i] = <<>>]
  /\ result' = [result EXCEPT ![i] = NoResult]
  /\ UNCHANGED platform

Next ==
  \E i \in Calls :
    \/ Invoke(i)
    \/ SpawnMacos(i)
    \/ SpawnWindows(i)
    \/ SpawnLinux(i)
    \/ Deliver(i)

Spec == Init /\ [][Next]_vars

(* Every spawn call returns: a pending Command::status() is eventually *)
(* answered by the operating system. *)
FairSpec ==
  /\ Spec
  /\ \A i \in Calls :
       WF_vars(SpawnMacos(i) \/ SpawnWindows(i) \/ SpawnLinux(i))

TypeOK ==
  /\ platform \in Platforms
  /\ pc \in [Calls -> {"idle", "spawning", "returned"}]
  /\ command \in [Calls -> Commands \cup {""}]
  /\ terminal \in [Calls -> 1..3]
  /\ result \in [Calls -> {NoResult} \cup {Ok(m) : m \in {"Terminal launched successfully"}}
                     \cup {Err(m) : m \in OsErrors \cup {"Failed to launch terminal",
                                                       "Failed to launch terminal on Linux"}}]

-----------------------------------------------------------------------------
(* Vocabulary of the properties, written from the observable log of spawn *)
(* calls rather than from the operators above.                            *)

Returned(i) == pc[i] = "returned"

Active(i) == pc[i] # "idle"

Failed(a) == ~(a.outcome.spawned /\ a.outcome.success)

Succeeded(a) == a.outcome.spawned /\ a.outcome.success

ProgramsOf(i) == [k \in 1..Len(spawns[i]) |-> spawns[i][k].program]

OutcomesOf(i) == [k \in 1..Len(spawns[i]) |-> spawns[i][k].outcome]

LastArg(a) == a.args[Len(a.args)]

Candidates == <<"gnome-terminal", "xterm", "konsole">>

-----------------------------------------------------------------------------
(* C1: on Linux, when the first candidate (gnome-terminal) fails and the   *)
(* second (xterm) launches successfully, the call has returned Ok after    *)
(* exactly two spawn attempts, gnome-terminal then xterm; konsole is never *)
(* invoked.                                                                *)
C1_SecondCandidateStops ==
  \A i \in Calls :
    ( /\ platform = "linux"
      /\ Len(spawns[i]) >= 2
      /\ Failed(spawns[i][1])
      /\ Succeeded(spawns[i][2]) )
    => /\ Returned(i)
       /\ result[i].tag = "Ok"
       /\ Len(spawns[i]) = 2
       /\ ProgramsOf(i) = <<"gnome-terminal", "xterm">>
       /\ \A k \in 1..Len(spawns[i]) : spawns[i][k].program # "konsole"

C1_Witness ==
  \E i \in Calls :
    /\ platform = "linux"
    /\ Returned(i)
    /\ Len(spawns[i]) = 2
    /\ ~spawns[i][1].outcome.spawned
    /\ Succeeded(spawns[i][2])
    /\ result[i].tag = "Ok"

(* C2: on Linux a call returns Err only after all three candidates have   *)
(* been attempted and have failed: exactly 3 spawn attempts, the message   *)
(* is the aggregate "Failed to launch terminal on Linux", and it is no     *)
(* candidate's own error text.                                             *)
C2_LinuxErrAfterAllFailed ==
  \A i \in Calls :
    (platform = "linux" /\ Returned(i) /\ result[i].tag = "Err")
    => /\ Len(spawns[i]) = 3
       /\ ProgramsOf(i) = Candidates
       /\ \A k \in 1..3 : Failed(spawns[i][k])
       /\ result[i].msg = "Failed to launch terminal on Linux"
       /\ \A k \in 1..3 : result[i].msg # spawns[i][k].outcome.error
       /\ result[i].msg \notin OsErrors

C2_Witness ==
  \E i \in Calls :
    /\ platform = "linux"
    /\ Returned(i)
    /\ result[i].tag = "Err"
    /\ Len(spawns[i]) = 3
    /\ \E k \in 1..3 : ~spawns[i][k].outcome.spawned
    /\ \E k \in 1..3 : spawns[i][k].outcome.spawned

(* C3 as stated: on every platform, a call in which a spawn call itself   *)
(* errored returns Err carrying that OS error's text.                      *)
C3_Original ==
  \A i \in Calls :
    Returned(i) =>
      \A k \in 1..Len(spawns[i]) :
        ~spawns[i][k].outcome.spawned
        => result[i] = Err(spawns[i][k].outcome.error)

(* C3 (amended): on macOS and Windows, a call whose spawn call errored     *)
(* returns Err carrying the OS error's text, which is not one of the fixed *)
(* messages; on Linux a candidate's spawn error is never the returned      *)
(* message: the call goes on to the next candidate and returns Ok if a     *)
(* later one succeeds, else the aggregate Linux failure message.           *)
C3_SpawnErrorText ==
  \A i \in Calls :
    Returned(i) =>
      \A k \in 1..Len(spawns[i]) :
        ~spawns[i][k].outcome.spawned =>
          IF platform \in {"macos", "windows"}
            THEN /\ result[i].tag = "Err"
                 /\ result[i].msg = spawns[i][k].outcome.error
                 /\ result[i].msg \in OsErrors
                 /\ result[i].msg \notin {"Failed to launch terminal",
                                          "Failed to launch terminal on Linux"}
            ELSE /\ result[i].msg # spawns[i][k].outcome.error
                 /\ \/ /\ result[i].tag = "Ok"
                       /\ \E m \in (k + 1)..Len(spawns[i]) : Succeeded(spawns[i][m])
                    \/ /\ result[i] = Err("Failed to launch terminal on Linux")
                       /\ Len(spawns[i]) = 3

C3_Witness ==
  \E i \in Calls :
    /\ platform \in {"macos", "windows"}
    /\ Returned(i)
    /\ Len(spawns[i]) = 1
    /\ ~spawns[i][1].outcome.spawned
    /\ result[i].tag = "Err"

(* C4 as stated: on every platform the delayed command is the platform's   *)
(* delay prefix followed by the command and nothing else.                  *)
C4_Original ==
  \A i \in Calls :
    Active(i) =>
      command_with_delay[i] =
        (IF platform = "windows" THEN "timeout /t 2 && " ELSE "sleep 2 && ")
          \o command[i]

(* C4 (amended): the delayed command is the platform's delay prefix        *)
(* followed by the command verbatim, followed on Linux (and only there) by *)
(* ";bash"; on Windows and Linux it is the last argument of every spawn,   *)
(* on macOS it stands unescaped between the quotes of the osascript        *)
(* `tell application "Terminal" to do script "..."` argument.  "echo hi"   *)
(* on Windows gives exactly "timeout /t 2 && echo hi".                     *)
C4_DelayedCommand ==
  \A i \in Calls :
    Active(i) =>
      /\ platform = "macos" =>
           /\ command_with_delay[i] = "sleep 2 && " \o command[i]
           /\ \A k \in 1..Len(spawns[i]) :
                spawns[i][k].args =
                  <<"-e", "tell application \"Terminal\" to do script \""
                            \o "sleep 2 && " \o command[i] \o "\"">>
      /\ platform = "windows" =>
           /\ command_with_delay[i] = "timeout /t 2 && " \o command[i]
           /\ command[i] = "echo hi" =>
                command_with_delay[i] = "timeout /t 2 && echo hi"
           /\ \A k \in 1..Len(spawns[i]) :
                LastArg(spawns[i][k]) = "timeout /t 2 && " \o command[i]
      /\ platform = "linux" =>
           /\ command_with_delay[i] = "sleep 2 && " \o command[i] \o ";bash"
           /\ \A k \in 1..Len(spawns[i]) :
                LastArg(spawns[i][k]) = "sleep 2 && " \o command[i] \o ";bash"

C4_Witness ==
  \E i \in Calls :
    /\ platform = "windows"
    /\ Returned(i)
    /\ command[i] = "echo hi"
    /\ Len(spawns[i]) = 1
    /\ LastArg(spawns[i][1]) = "timeout /t 2 && echo hi"

(* C5: a returned call holds Ok, with a non-empty message, exactly when    *)
(* one of its spawned processes reported a success exit status; it holds   *)
(* Err when the single spawn of macOS/Windows errored or exited without    *)
(* success, and on Linux when that is so for all three candidates.         *)
C5_OkIffSuccessStatus ==
  \A i \in Calls :
    Returned(i) =>
      /\ result[i].tag \in {"Ok", "Err"}
      /\ result[i].tag = "Ok" <=> \E k \in 1..Len(spawns[i]) : Succeeded(spawns[i][k])
      /\ result[i].tag = "Ok" => result[i].msg # ""
      /\ platform \in {"macos", "windows"} =>
           /\ Len(spawns[i]) = 1
           /\ result[i].tag = "Err" <=> Failed(spawns[i][1])
      /\ platform = "linux" =>
           (result[i].tag = "Err" <=>
              /\ ProgramsOf(i) = Candidates
              /\ \A k \in 1..Len(spawns[i]) : Failed(spawns[i][k]))

C5_Witness ==
  \E i \in Calls :
    /\ Returned(i)
    /\ command[i] # ""
    /\ result[i].tag = "Ok"
    /\ result[i].msg # ""
    /\ Succeeded(spawns[i][Len(spawns[i])])

(* What one invocation holds. *)
Slot(i) == <<pc[i], command[i], command_with_delay[i], terminal[i], spawns[i], result[i]>>

(* The result a returned call must hold, read off its own spawn outcomes. *)
OwnResult(i) ==
  LET last == spawns[i][Len(spawns[i])].outcome
  IN  IF last.spawned /\ last.success THEN Ok("Terminal launched successfully")
      ELSE IF platform = "linux" THEN Err("Failed to launch terminal on Linux")
      ELSE IF last.spawned THEN Err("Failed to launch terminal")
      ELSE Err(last.error)

(* The delayed command a call must hold, read off its own command. *)
OwnDelayed(i) ==
  IF platform = "windows" THEN "timeout /t 2 && " \o command[i]
  ELSE IF platform = "linux" THEN "sleep 2 && " \o command[i] \o ";bash"
  ELSE "sleep 2 && " \o command[i]

C6_Determined ==
  \A i \in Calls :
    /\ Active(i) =>
         /\ command_with_delay[i] = OwnDelayed(i)
         /\ \A k \in 1..Len(spawns[i]) :
              IF platform = "macos"
                THEN spawns[i][k].args[2] =
                       "tell application \"Terminal\" to do script \""
                         \o OwnDelayed(i) \o "\""
                ELSE LastArg(spawns[i][k]) = OwnDelayed(i)
    /\ Returned(i) => result[i] = OwnResult(i)
    /\ ~Returned(i) => result[i] = NoResult

C6_OwnStep ==
  \E i \in Calls : \A j \in Calls \ {i} : Slot(j)' = Slot(j)

(* C6: concurrent invocations share no state: every step changes what one  *)
(* invocation holds and leaves every other invocation's command, delayed   *)
(* command, spawn attempts and result as they were, and at every moment    *)
(* each invocation's delayed command, spawn arguments and result are those *)
(* its own command and its own spawn outcomes determine.                   *)
C6_Independent == []C6_Determined /\ [][C6_OwnStep]_vars

C6_Witness ==
  \E i, j \in Calls :
    /\ i # j
    /\ Returned(i) /\ Returned(j)
    /\ command[i] # command[j]
    /\ result[i].tag = "Ok"
    /\ result[j].tag = "Err"

C7_NoOtherExit ==
  \A i \in Calls :
    /\ pc[i] \in {"idle", "spawning", "returned"}
    /\ Returned(i) <=> result[i].tag \in {"Ok", "Err"}
    /\ Returned(i) => Len(spawns[i]) >= 1
    /\ Len(spawns[i]) <= (IF platform = "linux" THEN 3 ELSE 1)

(* C7: given that every spawn call returns, every invocation eventually    *)
(* returns a Result; whatever the spawn outcomes, the only way out of an   *)
(* invocation is a returned Ok or Err, and a call makes at most 3 spawn    *)
(* attempts on Linux (1 elsewhere).                                        *)
C7_Returns ==
  /\ []C7_NoOtherExit
  /\ \A i \in Calls : (pc[i] = "spawning") ~> Returned(i)

C7_Witness ==
  \E i \in Calls :
    /\ platform = "linux"
    /\ Returned(i)
    /\ Len(spawns[i]) = 3
    /\ result[i].tag = "Err"
    /\ ~spawns[i][3].outcome.spawned

(* C8: on Linux the candidates attempted so far are always a prefix of     *)
(* gnome-terminal, xterm, konsole, none twice; every attempt but the last  *)
(* has failed; a failed attempt, whether its spawn errored or it exited    *)
(* without success, that is not the third leaves the call running with the *)
(* next candidate up; a successful attempt ends the call with Ok.          *)
C8_OrderedFallback ==
  \A i \in Calls :
    platform = "linux" =>
      LET n == Len(spawns[i])
      IN  /\ n <= 3
          /\ ProgramsOf(i) = SubSeq(Candidates, 1, n)
          /\ \A k, m \in 1..n : k # m => spawns[i][k].program # spawns[i][m].program
          /\ \A k \in 1..(n - 1) : Failed(spawns[i][k])
          /\ (n >= 1 /\ n < 3 /\ Failed(spawns[i][n])) =>
               /\ pc[i] = "spawning"
               /\ terminal[i] = n + 1
          /\ (n >= 1 /\ Succeeded(spawns[i][n])) =>
               /\ Returned(i)
               /\ result[i].tag = "Ok"
          /\ pc[i] = "spawning" => terminal[i] = n + 1

C8_Witness ==
  \E i \in Calls :
    /\ platform = "linux"
    /\ Returned(i)
    /\ Len(spawns[i]) = 3
    /\ ~spawns[i][1].outcome.spawned
    /\ spawns[i][2].outcome.spawned /\ ~spawns[i][2].outcome.success
    /\ Succeeded(spawns[i][3])
    /\ result[i].tag = "Ok"

(* C9: on Linux every candidate attempted within one call is handed the    *)
(* same delayed command, "sleep 2 && " then the command then ";bash"; the  *)
(* string does not change between fallback attempts.                       *)
C9_SameStringEveryCandidate ==
  \A i \in Calls :
    platform = "linux" =>
      /\ \A k \in 1..Len(spawns[i]) :
           LastArg(spawns[i][k]) = "sleep 2 && " \o command[i] \o ";bash"
      /\ \A k, m \in 1..Len(spawns[i]) :
           LastArg(spawns[i][k]) = LastArg(spawns[i][m])

C9_Witness ==
  \E i \in Calls :
    /\ platform = "linux"
    /\ Len(spawns[i]) = 3
    /\ command[i] = "echo hi"
    /\ LastArg(spawns[i][3]) = "sleep 2 && echo hi;bash"

(* C10: the result does not depend on the command: two returned calls      *)
(* with the same sequence of spawn outcomes made the same number of spawn  *)
(* attempts on the same programs and hold the identical Ok/Err value; on   *)
(* macOS and Windows a call makes exactly one spawn attempt and a          *)
(* non-success exit gives Err("Failed to launch terminal").                *)
C10_ResultIgnoresCommand ==
  /\ \A i, j \in Calls :
       (Returned(i) /\ Returned(j) /\ OutcomesOf(i) = OutcomesOf(j))
       => /\ result[i] = result[j]
          /\ Len(spawns[i]) = Len(spawns[j])
          /\ ProgramsOf(i) = ProgramsOf(j)
  /\ \A i \in Calls :
       (platform \in {"macos", "windows"} /\ Returned(i))
       => /\ Len(spawns[i]) = 1
          /\ spawns[i][1].program = (IF platform = "macos" THEN "osascript" ELSE "cmd")
          /\ (spawns[i][1].outcome.spawned /\ ~spawns[i][1].outcome.success)
               => result[i] = Err("Failed to launch terminal")

C10_Witness ==
  \E i, j \in Calls :
    /\ i # j
    /\ platform = "macos"
    /\ Returned(i) /\ Returned(j)
    /\ command[i] # command[j]
    /\ OutcomesOf(i) = OutcomesOf(j)
    /\ spawns[i][1].outcome.spawned /\ ~spawns[i][1].outcome.success
    /\ result[i] = result[j]

=============================================================================
